---------------------------- MODULE Spec2Model ----------------------------
(***************************************************************************)
(* Raster -> toolpath -> G-code pipeline of ImageToGCode.                  *)
(*                                                                         *)
(* Three programs live in the repository:                                  *)
(*   ImageToGCode.py     script: diagonal family hatch + G-code loop       *)
(*   InkscapeToGCode.py  boustrophedon scanline fill + G-code writer       *)
(*   ImageToGCode2.py    b/w scanline fill, block density hatch and the    *)
(*                       G-code writer with tiny-move and rapid-move       *)
(*                       suppression                                       *)
(*                                                                         *)
(* Numbers.  Python floats are modelled as tagged values: a finite value   *)
(* is an exact integer count of a fixed unit, and NaN, +inf, -inf are      *)
(* separate values with IEEE-754 arithmetic and comparison.                *)
(*   - millimetres are counted in units of 1/MmDen mm.  MmDen = 1500 is    *)
(*     chosen so that 0.01 mm is a whole number of units and no value of   *)
(*     the grid lies on a tie of round(v, 3) or of the "%.2f" format       *)
(*     (Python resolves such ties by the binary representation).           *)
(*   - pixel coordinates handed to the G-code writers are counted in       *)
(*     sub-pixel units (contours and block hatches are fractional), the    *)
(*     image size in the same units.                                       *)
(***************************************************************************)
EXTENDS Integers, Sequences, FiniteSets, TLC

VARIABLES
    prog,          \* which function of the repository is running
    pc,            \* its position: "start", "loop", "done"
    img_array,     \* tone field: [0..height-1 -> [0..width-1 -> pixel value]]
    width,         \* img_array.shape[1]
    height,        \* img_array.shape[0]
    cfg,           \* the remaining arguments of the running generator
    cursor,        \* index of the outer loop of the running function
    lines,         \* segment list: built by a generator, read by a writer
    trace,         \* per outer-loop iteration: what that iteration appended
    img_w_px,      \* G-code writer: image width  (sub-pixel units)
    img_h_px,      \* G-code writer: image height (sub-pixel units)
    printed_w_mm,  \* G-code writer: printed width  (mm units)
    printed_h_mm,  \* G-code writer: printed height (mm units)
    out,           \* the lines written to the output file, in order
    last_pos       \* ImageToGCode2.generate_gcode: last_pos (<<>> is None)

vars == <<prog, pc, img_array, width, height, cfg, cursor, lines, trace,
          img_w_px, img_h_px, printed_w_mm, printed_h_mm, out, last_pos>>

genVars == <<img_array, width, height, cfg, trace>>
gcodeVars == <<img_w_px, img_h_px, printed_w_mm, printed_h_mm, out, last_pos>>

---------------------------------------------------------------------------
(* Bounds of the model *)

MaxSegs == 3       \* longest segment list given to a G-code writer
MaxWidth == 3      \* widest tone field
MaxHeight == 2     \* tallest tone field

(* Program constants *)

MmDen == 1500              \* model units per millimetre
SKIP_TINY_MOVE_MM == 15    \* 0.01 mm, in mm units
FEED_RATE2 == 2000         \* ImageToGCode2.FEED_RATE
FEED_RATE == 800           \* ImageToGCode.FEED_RATE
FEED_RATE_INK == 800       \* InkscapeToGCode.FEED_RATE
WHITE == 255               \* np.array(img) / 255.0: 255 is intensity 1.0
STEP_INK == 1              \* InkscapeToGCode.STEP, 0.5 mm, in half millimetres
PAGE_WIDTH_INK == 135      \* InkscapeToGCode.PAGE_WIDTH, mm
NUM_GRAY_LEVELS == 4       \* ImageToGCode.NUM_GRAY_LEVELS
DENSE_SPACING == 1         \* ImageToGCode.DENSE_SPACING, 0.5, in halves
OffDen == 8                \* block hatch: coordinates count 1/8 pixel

---------------------------------------------------------------------------
(* Integer helpers *)

Max(a, b) == IF a >= b THEN a ELSE b

Abs(a) == IF a >= 0 THEN a ELSE -a

\* nearest integer to n/d (d > 0); used only where n/d is never a tie
RoundNearest(n, d) == (2 * n + d) \div (2 * d)

---------------------------------------------------------------------------
(* Python floats *)

Fin(n) == [k |-> "fin", v |-> n]
NaN == [k |-> "nan", v |-> 0]
PosInf == [k |-> "inf", v |-> 1]
NegInf == [k |-> "inf", v |-> -1]

IsFinite(a) == a.k = "fin"

\* a * s for a finite s > 0
FScale(a, s) == IF IsFinite(a) THEN Fin(a.v * s) ELSE a

\* h - a for a finite h
FSubFrom(h, a) ==
    CASE a.k = "fin" -> Fin(h - a.v)
      [] a.k = "nan" -> NaN
      [] a.k = "inf" -> [k |-> "inf", v |-> -a.v]

\* a - b
FSub(a, b) ==
    CASE a.k = "nan" \/ b.k = "nan" -> NaN
      [] a.k = "fin" /\ b.k = "fin" -> Fin(a.v - b.v)
      [] a.k = "inf" /\ b.k = "fin" -> a
      [] a.k = "fin" /\ b.k = "inf" -> [k |-> "inf", v |-> -b.v]
      [] a.k = "inf" /\ b.k = "inf" -> IF a.v = b.v THEN NaN ELSE a

\* abs(a)
FAbs(a) ==
    CASE a.k = "fin" -> Fin(Abs(a.v))
      [] a.k = "nan" -> NaN
      [] a.k = "inf" -> PosInf

\* a < t for a finite t: every comparison with NaN is False
FLess(a, t) ==
    CASE a.k = "fin" -> a.v < t
      [] a.k = "nan" -> FALSE
      [] a.k = "inf" -> a.v < 0

\* a == b: NaN equals nothing, itself included
FEq(a, b) == a.k # "nan" /\ b.k # "nan" /\ a = b

\* round(a, 3): the result counts 0.001 mm; non-finite values pass through
Round3(a) == IF IsFinite(a) THEN Fin(RoundNearest(1000 * a.v, MmDen)) ELSE a

\* f"{a:.2f}": the result counts 0.01 mm; prints nan, inf, -inf as such
Fmt2(a) == IF IsFinite(a) THEN Fin(RoundNearest(100 * a.v, MmDen)) ELSE a

\* a segment ((x0, y0), (x1, y1))
Segment(x0, y0, x1, y1) == <<<<x0, y0>>, <<x1, y1>>>>

---------------------------------------------------------------------------
(* Coordinate mapping *)

\* ImageToGCode2.pixel_to_mm: Y flipped, origin bottom-left
pixel_to_mm2(x, y, w_px, h_px, w_mm, h_mm) ==
    LET sx == w_mm \div w_px
        sy == h_mm \div h_px
    IN  <<FScale(x, sx), FScale(FSubFrom(h_px, y), sy)>>

\* InkscapeToGCode.pixel_to_mm: Y flipped
pixel_to_mm_ink(x, y, img_w, img_h, page_w, page_h) ==
    LET scale_x == page_w \div img_w
        scale_y == page_h \div img_h
    IN  <<FScale(x, scale_x), FScale(FSubFrom(img_h, y), scale_y)>>

\* ImageToGCode.pixel_to_mm: no flip
pixel_to_mm1(x, y, img_width, img_height, page_width, page_height) ==
    LET scale_x == page_width \div img_width
        scale_y == page_height \div img_height
    IN  <<FScale(x, scale_x), FScale(y, scale_y)>>

---------------------------------------------------------------------------
(* Output lines.  seg is the index in `lines` of the segment the line was  *)
(* written for; x and y are the numbers as printed with two decimals.      *)

Comment == [op |-> "Comment"]
Units == [op |-> "G21"]
Absolute == [op |-> "G90"]
RapidMove(p, i) == [op |-> "G0", x |-> Fmt2(p[1]), y |-> Fmt2(p[2]), seg |-> i]
PenDown(i) == [op |-> "PenDown", seg |-> i]
LinearMove(p, f, i) ==
    [op |-> "G1", x |-> Fmt2(p[1]), y |-> Fmt2(p[2]), f |-> f, seg |-> i]
PenUp(i) == [op |-> "PenUp", seg |-> i]

---------------------------------------------------------------------------
(* ImageToGCode2.generate_gcode *)

\* variant: the threshold taken a decimal place too small
IsTinyMoveSmallThreshold(p0, p1) ==
    /\ FLess(FAbs(FSub(p1[1], p0[1])), SKIP_TINY_MOVE_MM \div 10)
    /\ FLess(FAbs(FSub(p1[2], p0[2])), SKIP_TINY_MOVE_MM \div 10)

\* the micro-move test of the loop body
IsTinyMove(p0, p1) ==
    /\ FLess(FAbs(FSub(p1[1], p0[1])), SKIP_TINY_MOVE_MM)
    /\ FLess(FAbs(FSub(p1[2], p0[2])), SKIP_TINY_MOVE_MM)

\* (round(x, 3), round(y, 3))
RoundPos(p) == <<Round3(p[1]), Round3(p[2])>>

\* variant: the positions count as different only when both axes differ
PosDiffersBothAxes(lp, p) ==
    \/ lp = <<>>
    \/ (~FEq(lp[1], Round3(p[1])) /\ ~FEq(lp[2], Round3(p[2])))

\* last_pos != (round(x0,3), round(y0,3)): None differs from every tuple
PosDiffers(lp, p) ==
    \/ lp = <<>>
    \/ ~FEq(lp[1], Round3(p[1]))
    \/ ~FEq(lp[2], Round3(p[2]))

\* variant: the pen is left down when the next segment may continue the path
EmitSegment2NoPenUp(lp, p0, p1, i) ==
    (IF PosDiffers(lp, p0) THEN <<RapidMove(p0, i)>> ELSE <<>>)
        \o <<PenDown(i), LinearMove(p1, FEED_RATE2, i)>>

\* the four writes of one loop iteration that is not skipped
EmitSegment2(lp, p0, p1, i) ==
    (IF PosDiffers(lp, p0) THEN <<RapidMove(p0, i)>> ELSE <<>>)
        \o <<PenDown(i), LinearMove(p1, FEED_RATE2, i), PenUp(i)>>

\* variant: the absolute-positioning declaration is left out
Gcode2HeaderNoG90 ==
    /\ prog = "ImageToGCode2.generate_gcode"
    /\ pc = "start"
    /\ out' = <<Comment, Units>>
    /\ last_pos' = <<>>
    /\ cursor' = 1
    /\ pc' = "loop"
    /\ UNCHANGED <<prog, lines, genVars, img_w_px, img_h_px,
                   printed_w_mm, printed_h_mm>>

Gcode2Header ==
    /\ prog = "ImageToGCode2.generate_gcode"
    /\ pc = "start"
    /\ out' = <<Comment, Units, Absolute>>
    /\ last_pos' = <<>>
    /\ cursor' = 1
    /\ pc' = "loop"
    /\ UNCHANGED <<prog, lines, genVars, img_w_px, img_h_px,
                   printed_w_mm, printed_h_mm>>

Gcode2Segment ==
    /\ prog = "ImageToGCode2.generate_gcode"
    /\ pc = "loop"
    /\ cursor <= Len(lines)
    /\ LET s == lines[cursor]
           p0 == pixel_to_mm2(s[1][1], s[1][2], img_w_px, img_h_px,
                              printed_w_mm, printed_h_mm)
           p1 == pixel_to_mm2(s[2][1], s[2][2], img_w_px, img_h_px,
                              printed_w_mm, printed_h_mm)
       IN  IF IsTinyMove(p0, p1)
           THEN UNCHANGED <<out, last_pos>>
           ELSE /\ out' = out \o EmitSegment2(last_pos, p0, p1, cursor)
                /\ last_pos' = RoundPos(p1)
    /\ cursor' = cursor + 1
    /\ UNCHANGED <<prog, pc, lines, genVars, img_w_px, img_h_px,
                   printed_w_mm, printed_h_mm>>

---------------------------------------------------------------------------
(* ImageToGCode.py main script, G-code loop: `lines` stands for the        *)
(* segments of the gray levels in the order the loops visit them.          *)

\* the four writes of one iteration of `for start, end in lines`
EmitSegment1(p0, p1, i) ==
    <<RapidMove(p0, i), PenDown(i), LinearMove(p1, FEED_RATE, i), PenUp(i)>>

Gcode1Header ==
    /\ prog = "ImageToGCode.main"
    /\ pc = "start"
    /\ out' = <<Units, Absolute>>
    /\ cursor' = 1
    /\ pc' = "loop"
    /\ UNCHANGED <<prog, lines, genVars, img_w_px, img_h_px,
                   printed_w_mm, printed_h_mm, last_pos>>

Gcode1Segment ==
    /\ prog = "ImageToGCode.main"
    /\ pc = "loop"
    /\ cursor <= Len(lines)
    /\ LET s == lines[cursor]
           p0 == pixel_to_mm1(s[1][1], s[1][2], img_w_px, img_h_px,
                              printed_w_mm, printed_h_mm)
           p1 == pixel_to_mm1(s[2][1], s[2][2], img_w_px, img_h_px,
                              printed_w_mm, printed_h_mm)
       IN  out' = out \o EmitSegment1(p0, p1, cursor)
    /\ cursor' = cursor + 1
    /\ UNCHANGED <<prog, pc, lines, genVars, img_w_px, img_h_px,
                   printed_w_mm, printed_h_mm, last_pos>>

---------------------------------------------------------------------------
(* InkscapeToGCode.generate_gcode(lines, img_w, img_h, out_path)           *)

\* the four writes of one iteration of `for start, end in lines`
EmitSegmentInk(p0, p1, i) ==
    <<RapidMove(p0, i), PenDown(i), LinearMove(p1, FEED_RATE_INK, i),
      PenUp(i)>>

GcodeInkHeader ==
    /\ prog = "InkscapeToGCode.generate_gcode"
    /\ pc = "start"
    /\ out' = <<Units, Absolute>>
    /\ cursor' = 1
    /\ pc' = "loop"
    /\ UNCHANGED <<prog, lines, genVars, img_w_px, img_h_px,
                   printed_w_mm, printed_h_mm, last_pos>>

GcodeInkSegment ==
    /\ prog = "InkscapeToGCode.generate_gcode"
    /\ pc = "loop"
    /\ cursor <= Len(lines)
    /\ LET s == lines[cursor]
           p0 == pixel_to_mm_ink(s[1][1], s[1][2], img_w_px, img_h_px,
                                 printed_w_mm, printed_h_mm)
           p1 == pixel_to_mm_ink(s[2][1], s[2][2], img_w_px, img_h_px,
                                 printed_w_mm, printed_h_mm)
       IN  out' = out \o EmitSegmentInk(p0, p1, cursor)
    /\ cursor' = cursor + 1
    /\ UNCHANGED <<prog, pc, lines, genVars, img_w_px, img_h_px,
                   printed_w_mm, printed_h_mm, last_pos>>

\* the `with open(...)` block ends: the file is closed
GcodeClose ==
    /\ prog \in {"ImageToGCode2.generate_gcode", "ImageToGCode.main",
                 "InkscapeToGCode.generate_gcode"}
    /\ pc = "loop"
    /\ cursor = Len(lines) + 1
    /\ pc' = "done"
    /\ UNCHANGED <<prog, cursor, lines, genVars, gcodeVars>>

---------------------------------------------------------------------------
(* Inputs of the G-code writers *)

\* Sub-pixel segments.  At scale 1, x = 1 and x = 2 map to different
\* millimetre values that round to the same 0.001 mm.
PxSegments ==
    {Segment(Fin(20), Fin(0), Fin(1), Fin(0)),    \* ends at x = 1
     Segment(Fin(1), Fin(0), Fin(20), Fin(0)),    \* starts at x = 1
     Segment(Fin(2), Fin(0), Fin(20), Fin(0)),    \* starts at x = 2
     Segment(Fin(20), Fin(0), Fin(13), Fin(12)),  \* short in x, not in y
     Segment(Fin(1), Fin(0), Fin(2), Fin(0)),     \* micro-move
     Segment(Fin(1), Fin(0), Fin(13), Fin(12)),   \* short on both axes
     Segment(Fin(2), Fin(0), Fin(2), Fin(0))}     \* start = end

\* segments with a non-finite coordinate
PxSegmentsNonFinite ==
    {Segment(Fin(20), Fin(0), Fin(1), Fin(0)),
     Segment(Fin(1), Fin(0), Fin(20), Fin(0)),
     Segment(NaN, Fin(0), Fin(20), Fin(0)),
     Segment(Fin(20), Fin(0), NaN, NaN),
     Segment(Fin(1), Fin(0), PosInf, Fin(0)),
     Segment(PosInf, Fin(0), PosInf, Fin(0)),
     Segment(Fin(1), NegInf, Fin(1), Fin(0))}

SeqsUpTo(S, n) == UNION {[1..m -> S] : m \in 0..n}

\* (img_w_px, img_h_px, printed_w_mm, printed_h_mm): scales (1,1) and (2,3)
Geometries == {<<24, 24, 24, 24>>, <<24, 20, 48, 60>>}

GcodeProgs ==
    {"ImageToGCode2.generate_gcode", "ImageToGCode.main",
     "InkscapeToGCode.generate_gcode"}

InitGcodeWith(segments) ==
    /\ prog \in GcodeProgs
    /\ pc = "start"
    /\ lines \in SeqsUpTo(segments, MaxSegs)
    /\ \E g \in Geometries :
          /\ img_w_px = g[1]
          /\ img_h_px = g[2]
          /\ printed_w_mm = g[3]
          /\ printed_h_mm = g[4]
    /\ out = <<>>
    /\ last_pos = <<>>
    /\ cursor = 0
    /\ img_array = <<>>
    /\ width = 0
    /\ height = 0
    /\ cfg = <<>>
    /\ trace = <<>>

InitGcode == InitGcodeWith(PxSegments)

InitNonFinite == InitGcodeWith(PxSegmentsNonFinite)

NextGcode ==
    \/ Gcode2Header
    \/ Gcode2Segment
    \/ Gcode1Header
    \/ Gcode1Segment
    \/ GcodeInkHeader
    \/ GcodeInkSegment
    \/ GcodeClose

Spec == InitGcode /\ [][NextGcode]_vars

SpecNonFinite == InitNonFinite /\ [][NextGcode]_vars

---------------------------------------------------------------------------
(* Tone fields.  A pixel holds the 8-bit value v of the decoded image; the *)
(* normalised arrays of ImageToGCode2 and InkscapeToGCode hold v / 255.    *)

\* row[x] < 0.5 on the normalised array
IsBlack(v) == 2 * v < WHITE

ToneFields(pixels) ==
    UNION {[0..(h - 1) -> [0..(w - 1) -> pixels]] :
              w \in 1..MaxWidth, h \in 1..MaxHeight}

\* the state before a generator is called on a tone field
InitGenerator(f, pixels) ==
    /\ prog = f
    /\ pc = "start"
    /\ img_array \in ToneFields(pixels)
    /\ height = Cardinality(DOMAIN img_array)
    /\ width = Cardinality(DOMAIN img_array[0])
    /\ lines = <<>>
    /\ trace = <<>>
    /\ cursor = 0
    /\ img_w_px = 0
    /\ img_h_px = 0
    /\ printed_w_mm = 0
    /\ printed_h_mm = 0
    /\ out = <<>>
    /\ last_pos = <<>>

\* `return lines`
GeneratorReturn(f) ==
    /\ prog = f
    /\ pc = "loop"
    /\ cursor * cfg.step >= height
    /\ pc' = "done"
    /\ UNCHANGED <<prog, cursor, lines, genVars, gcodeVars>>

---------------------------------------------------------------------------
(* ImageToGCode2.generate_fill_lines_bw(img_array, spacing_px)             *)

\* the inner loop `for x in range(width)` from x on, and the flush after it
RECURSIVE ScanRowBw(_, _, _, _, _)
ScanRowBw(row, y, x, inside, start_x) ==
    IF x >= width
    THEN IF inside THEN <<Segment(start_x, y, width - 1, y)>> ELSE <<>>
    ELSE LET is_black == IsBlack(row[x])
         IN  IF is_black /\ ~inside
             THEN ScanRowBw(row, y, x + 1, TRUE, x)
             ELSE IF ~is_black /\ inside
             THEN <<Segment(start_x, y, x - 1, y)>>
                      \o ScanRowBw(row, y, x + 1, FALSE, start_x)
             ELSE ScanRowBw(row, y, x + 1, inside, start_x)

FillBwStart ==
    /\ prog = "generate_fill_lines_bw"
    /\ pc = "start"
    /\ cfg' = [cfg EXCEPT !.step = Max(1, cfg.spacing_px)]
    /\ lines' = <<>>
    /\ cursor' = 0
    /\ pc' = "loop"
    /\ UNCHANGED <<prog, img_array, width, height, trace, gcodeVars>>

\* one iteration of `for y in range(0, height, step)`
FillBwRow ==
    /\ prog = "generate_fill_lines_bw"
    /\ pc = "loop"
    /\ cursor * cfg.step < height
    /\ LET y == cursor * cfg.step
           segs == ScanRowBw(img_array[y], y, 0, FALSE, 0)
       IN  /\ lines' = lines \o segs
           /\ trace' = Append(trace, [y |-> y, segs |-> segs])
    /\ cursor' = cursor + 1
    /\ UNCHANGED <<prog, pc, img_array, width, height, cfg, gcodeVars>>

---------------------------------------------------------------------------
(* InkscapeToGCode.generate_fill_lines(img_array, step_mm, page_w, page_h) *)

\* range(width) and range(width - 1, -1, -1) as sequences
RangeUp(w) == [n \in 1..w |-> n - 1]
RangeDown(w) == [n \in 1..w |-> w - n]

\* the inner loop `for x in x_range` from position n on, and the flush
\* after it; start is <<>> for None and <<x>> otherwise
RECURSIVE ScanRowInk(_, _, _, _, _)
ScanRowInk(row, y, x_range, n, start) ==
    IF n > Len(x_range)
    THEN IF start # <<>>
         THEN <<Segment(start[1], y, x_range[Len(x_range)], y)>>
         ELSE <<>>
    ELSE LET x == x_range[n]
         IN  IF IsBlack(row[x])
             THEN ScanRowInk(row, y, x_range, n + 1,
                             IF start = <<>> THEN <<x>> ELSE start)
             ELSE IF start # <<>>
             THEN <<Segment(start[1], y, x - 1, y)>>
                      \o ScanRowInk(row, y, x_range, n + 1, <<>>)
             ELSE ScanRowInk(row, y, x_range, n + 1, <<>>)

FillInkStart ==
    /\ prog = "generate_fill_lines"
    /\ pc = "start"
    /\ cfg' = [cfg EXCEPT
                 !.step = Max(1, (cfg.step_mm * width) \div (2 * cfg.page_w))]
    /\ lines' = <<>>
    /\ cursor' = 0
    /\ pc' = "loop"
    /\ UNCHANGED <<prog, img_array, width, height, trace, gcodeVars>>

\* one iteration of `for row_idx, y in enumerate(range(0, height, step_px))`
FillInkRow ==
    /\ prog = "generate_fill_lines"
    /\ pc = "loop"
    /\ cursor * cfg.step < height
    /\ LET row_idx == cursor
           y == cursor * cfg.step
           x_range ==
               IF row_idx % 2 = 0 THEN RangeUp(width) ELSE RangeDown(width)
           segs == ScanRowInk(img_array[y], y, x_range, 1, <<>>)
       IN  /\ lines' = lines \o segs
           /\ trace' = Append(trace, [y |-> y, segs |-> segs])
    /\ cursor' = cursor + 1
    /\ UNCHANGED <<prog, pc, img_array, width, height, cfg, gcodeVars>>

InitFill ==
    \/ /\ InitGenerator("generate_fill_lines_bw", {0, WHITE})
       /\ \E sp \in 1..2 : cfg = [spacing_px |-> sp, step |-> 0]
    \/ /\ InitGenerator("generate_fill_lines", {0, WHITE})
       /\ cfg = [step_mm |-> STEP_INK, page_w |-> PAGE_WIDTH_INK, step |-> 0]

NextFill ==
    \/ FillBwStart
    \/ FillBwRow
    \/ GeneratorReturn("generate_fill_lines_bw")
    \/ FillInkStart
    \/ FillInkRow
    \/ GeneratorReturn("generate_fill_lines")

SpecFill == InitFill /\ [][NextFill]_vars

---------------------------------------------------------------------------
(* ImageToGCode.generate_hatch_lines(img_array, spacing, gray_threshold)   *)
(* Offsets and the spacing are counted in halves: the script's spacings    *)
(* are 0.5, 1.0, 1.5 and 2.0.  The array holds the raw 8-bit values.       *)

gray_thresholds == <<64, 128, 192, 256>>

\* spacing_levels[i] = DENSE_SPACING * (i + 1), i from 0
spacing_levels(i) == DENSE_SPACING * (i + 1)

\* int(n / d): truncation towards zero
Trunc(n, d) == IF n >= 0 THEN n \div d ELSE -((-n) \div d)

\* variant: a run of a single point is flushed as well
FlushRunAny(line_points) ==
    IF Len(line_points) > 0
    THEN <<<<line_points[1], line_points[Len(line_points)]>>>>
    ELSE <<>>

\* `if len(line_points) > 1: lines.append((line_points[0], line_points[-1]))`
FlushRun(line_points) ==
    IF Len(line_points) > 1
    THEN <<<<line_points[1], line_points[Len(line_points)]>>>>
    ELSE <<>>

\* the inner loop `for x in range(width)` from x on, and the flush after it
RECURSIVE HatchWalk(_, _, _, _)
HatchWalk(offset2, gray_threshold, x, line_points) ==
    IF x >= width
    THEN FlushRun(line_points)
    ELSE LET y == Trunc(offset2 - 2 * x, 2)
         IN  IF 0 <= y /\ y < height
             THEN IF img_array[y][x] < gray_threshold
                  THEN HatchWalk(offset2, gray_threshold, x + 1,
                                 Append(line_points, <<x, y>>))
                  ELSE FlushRun(line_points)
                           \o HatchWalk(offset2, gray_threshold, x + 1, <<>>)
             ELSE HatchWalk(offset2, gray_threshold, x + 1, line_points)

HatchStart ==
    /\ prog = "generate_hatch_lines"
    /\ pc = "start"
    /\ lines' = <<>>
    /\ cursor' = 0
    /\ pc' = "loop"
    /\ UNCHANGED <<prog, genVars, gcodeVars>>

\* one iteration of `for offset in np.arange(0, max_offset, spacing)`:
\* the offsets are 0, spacing, 2 * spacing, ... below max_offset
HatchOffset ==
    /\ prog = "generate_hatch_lines"
    /\ pc = "loop"
    /\ LET max_offset == width + height
           offset2 == cursor * cfg.spacing2
       IN  /\ offset2 < 2 * max_offset
           /\ LET segs == HatchWalk(offset2, cfg.gray_threshold, 0, <<>>)
              IN  /\ lines' = lines \o segs
                  /\ trace' = Append(trace, [offset2 |-> offset2,
                                             segs |-> segs])
    /\ cursor' = cursor + 1
    /\ UNCHANGED <<prog, pc, img_array, width, height, cfg, gcodeVars>>

HatchReturn ==
    /\ prog = "generate_hatch_lines"
    /\ pc = "loop"
    /\ cursor * cfg.spacing2 >= 2 * (width + height)
    /\ pc' = "done"
    /\ UNCHANGED <<prog, cursor, lines, genVars, gcodeVars>>

\* the main script calls generate_hatch_lines once per gray level
InitHatch ==
    /\ InitGenerator("generate_hatch_lines", {0, WHITE})
    /\ \E gray_idx \in 0..(NUM_GRAY_LEVELS - 1) :
          cfg = [spacing2 |-> spacing_levels(gray_idx),
                 gray_threshold |-> gray_thresholds[gray_idx + 1]]

NextHatch ==
    \/ HatchStart
    \/ HatchOffset
    \/ HatchReturn

SpecHatch == InitHatch /\ [][NextHatch]_vars

---------------------------------------------------------------------------
(* ImageToGCode2.generate_density_hatch_blocks(img_array, step_px,         *)
(*     max_lines_per_block, diagonal, block_size)                          *)
(* Segment coordinates are counted in 1/OffDen pixel.                      *)

\* round(p / q) for p >= 0, q > 0: Python rounds a tie to the even integer
RoundHalfEven(p, q) ==
    LET f == p \div q
        r == p % q
    IN  IF 2 * r < q THEN f
        ELSE IF 2 * r > q THEN f + 1
        ELSE IF f % 2 = 0 THEN f ELSE f + 1

Min(a, b) == IF a <= b THEN a ELSE b

\* the pixels of img_array[y:y+bs, x:x+bs]: slices stop at the array's edge
BlockPixels(y, x, bs) ==
    (y..(Min(y + bs, height) - 1)) \X (x..(Min(x + bs, width) - 1))

\* the sum of the values of row r in columns c..c1
RECURSIVE SumRow(_, _, _)
SumRow(r, c, c1) ==
    IF c > c1 THEN 0 ELSE img_array[r][c] + SumRow(r, c + 1, c1)

\* the sum of the values of rows r..r1 in columns c..c1
RECURSIVE SumRows(_, _, _, _)
SumRows(r, r1, c, c1) ==
    IF r > r1 THEN 0 ELSE SumRow(r, c, c1) + SumRows(r + 1, r1, c, c1)

\* the numerator of np.mean(block): the sum of the block's values
BlockTotal(y, x, bs) ==
    SumRows(y, Min(y + bs, height) - 1, x, Min(x + bs, width) - 1)

\* variant: the mean is used as the blackness, without 1.0 - mean
NumLinesNotInverted(total, size, max_lines_per_block) ==
    RoundHalfEven(max_lines_per_block * total, WHITE * size)

\* avg = 1.0 - mean(block) with mean = total / (WHITE * size);
\* num = int(round(avg * max_lines_per_block))
NumLines(total, size, max_lines_per_block) ==
    RoundHalfEven(max_lines_per_block * (WHITE * size - total), WHITE * size)

\* the segments of one block: `for i in range(num)`
BlockSegments(x, y, num, step, bs, max_lines_per_block, diagonal) ==
    [n \in 1..num |->
        LET i == n - 1
            \* (i + 0.5) * (bs / max_lines_per_block)
            offset == ((2 * i + 1) * bs * OffDen) \div (2 * max_lines_per_block)
        IN  IF diagonal
            THEN Segment(OffDen * x, OffDen * y + offset,
                         OffDen * (x + step), OffDen * (y + step) + offset)
            ELSE Segment(OffDen * x, OffDen * y + offset,
                         OffDen * (x + step), OffDen * y + offset)]

BlocksStart ==
    /\ prog = "generate_density_hatch_blocks"
    /\ pc = "start"
    /\ cfg' = [cfg EXCEPT !.step = Max(1, cfg.step_px),
                          !.bs = Max(1, cfg.block_size)]
    /\ lines' = <<>>
    /\ cursor' = 0
    /\ pc' = "loop"
    /\ UNCHANGED <<prog, img_array, width, height, trace, gcodeVars>>

\* range(0, n, step) has this many elements
RangeLen(n, step) == (n + step - 1) \div step

\* one iteration of the inner loop `for x in range(0, w, step)`; cursor
\* counts the blocks in the order of the two nested loops
BlocksBlock ==
    /\ prog = "generate_density_hatch_blocks"
    /\ pc = "loop"
    /\ LET per_row == RangeLen(width, cfg.step)
           y == (cursor \div per_row) * cfg.step
           x == (cursor % per_row) * cfg.step
           block == BlockPixels(y, x, cfg.bs)
           size == Cardinality(block)
           total == BlockTotal(y, x, cfg.bs)
           num == NumLines(total, size, cfg.max_lines_per_block)
           segs == IF size = 0 \/ num <= 0 THEN <<>>
                   ELSE BlockSegments(x, y, num, cfg.step, cfg.bs,
                                      cfg.max_lines_per_block, cfg.diagonal)
       IN  /\ y < height
           /\ lines' = lines \o segs
           /\ trace' = Append(trace, [y |-> y, x |-> x, total |-> total,
                                      size |-> size, segs |-> segs])
    /\ cursor' = cursor + 1
    /\ UNCHANGED <<prog, pc, img_array, width, height, cfg, gcodeVars>>

BlocksReturn ==
    /\ prog = "generate_density_hatch_blocks"
    /\ pc = "loop"
    /\ (cursor \div RangeLen(width, cfg.step)) * cfg.step >= height
    /\ pc' = "done"
    /\ UNCHANGED <<prog, cursor, lines, genVars, gcodeVars>>

\* (block_size, max_lines_per_block): the values select_image passes, and
\* a smaller pair
BlockShapes == {<<4, 4>>, <<2, 2>>}

InitBlocks ==
    /\ InitGenerator("generate_density_hatch_blocks", {0, WHITE})
    /\ \E step_px \in 1..2, shape \in BlockShapes, diagonal \in BOOLEAN :
          cfg = [step_px |-> step_px, block_size |-> shape[1],
                 max_lines_per_block |-> shape[2], diagonal |-> diagonal,
                 step |-> 0, bs |-> 0]

NextBlocks ==
    \/ BlocksStart
    \/ BlocksBlock
    \/ BlocksReturn

SpecBlocks == InitBlocks /\ [][NextBlocks]_vars

---------------------------------------------------------------------------
(* Properties of the scanline fillers *)

\* the maximal runs of ink pixels of a row, as <<first x, last x>>
Runs(row) ==
    {<<a, b>> \in (0..(width - 1)) \X (0..(width - 1)) :
        /\ a <= b
        /\ \A x \in a..b : IsBlack(row[x])
        /\ (a = 0 \/ ~IsBlack(row[a - 1]))
        /\ (b = width - 1 \/ ~IsBlack(row[b + 1]))}

\* the pixel span of a horizontal segment
Span(s) ==
    <<IF s[1][1] <= s[2][1] THEN s[1][1] ELSE s[2][1],
      IF s[1][1] <= s[2][1] THEN s[2][1] ELSE s[1][1]>>

\* C4: on every sampled row of generate_fill_lines_bw and of
\* generate_fill_lines (left-to-right and right-to-left rows alike) the
\* emitted segments lie on the row and their pixel spans are exactly the
\* maximal runs of ink pixels of the row, one segment per run.
C4_SpansAreMaximalRuns ==
    \A t \in 1..Len(trace) :
        LET segs == trace[t].segs
            row == img_array[trace[t].y]
        IN  /\ \A n \in 1..Len(segs) :
                  segs[n][1][2] = trace[t].y /\ segs[n][2][2] = trace[t].y
            /\ {Span(segs[n]) : n \in 1..Len(segs)} = Runs(row)
            /\ Len(segs) = Cardinality(Runs(row))

\* C10: no generator emits a segment whose start equals its end.
C10_NoDegenerateSegment ==
    \A n \in 1..Len(lines) : lines[n][1] # lines[n][2]

---------------------------------------------------------------------------
(* Properties of the hatch generators *)

Ceil(a, b) == (a + b - 1) \div b

\* every pixel passes the threshold test of generate_hatch_lines
FullyInk ==
    \A y \in 0..(height - 1), x \in 0..(width - 1) :
        img_array[y][x] < cfg.gray_threshold

\* the columns where the walk of an offset is inside the field
InField(offset2) ==
    {x \in 0..(width - 1) :
        0 <= Trunc(offset2 - 2 * x, 2) /\ Trunc(offset2 - 2 * x, 2) < height}

\* the segment from the first to the last in-field pixel of an offset
FullSpan(offset2) ==
    LET lo == CHOOSE x \in InField(offset2) : \A z \in InField(offset2) : x <= z
        hi == CHOOSE x \in InField(offset2) : \A z \in InField(offset2) : z <= x
    IN  <<<<lo, Trunc(offset2 - 2 * lo, 2)>>, <<hi, Trunc(offset2 - 2 * hi, 2)>>>>

\* C5 as stated: on a fully-ink W x H field generate_hatch_lines visits
\* ceil((W+H)/S) offsets and every offset yields exactly one segment, which
\* spans the full in-field extent of its diagonal.
C5_EveryOffsetOneFullSpan ==
    (prog = "generate_hatch_lines" /\ pc = "done" /\ FullyInk) =>
        /\ Len(trace) = Ceil(2 * (width + height), cfg.spacing2)
        /\ \A t \in 1..Len(trace) :
              /\ InField(trace[t].offset2) # {}
              /\ trace[t].segs = <<FullSpan(trace[t].offset2)>>

\* C5 amended: on a fully-ink W x H field generate_hatch_lines visits
\* ceil((W+H)/S) offsets; an offset whose walk y = int(offset - x) meets at
\* least two in-field pixels yields exactly one segment, from the first to
\* the last of them, and every other offset yields none.
C5_OffsetsWithTwoPixelsOneFullSpan ==
    (prog = "generate_hatch_lines" /\ pc = "done" /\ FullyInk) =>
        /\ Len(trace) = Ceil(2 * (width + height), cfg.spacing2)
        /\ \A t \in 1..Len(trace) :
              trace[t].segs =
                  IF Cardinality(InField(trace[t].offset2)) >= 2
                  THEN <<FullSpan(trace[t].offset2)>>
                  ELSE <<>>

\* C5 witness: a finished run on a fully-ink field of at least 2 x 2 pixels
\* where one offset gave a segment over three pixels and offset 0 gave none
C5_Witness ==
    /\ prog = "generate_hatch_lines"
    /\ pc = "done"
    /\ FullyInk
    /\ width >= 2
    /\ height >= 2
    /\ trace[1].offset2 = 0
    /\ trace[1].segs = <<>>
    /\ \E t \in 1..Len(trace) :
          /\ Len(trace[t].segs) = 1
          /\ Cardinality(InField(trace[t].offset2)) >= 3

\* the mean ink intensity 1 - total / (WHITE * size) of block a is greater
\* than that of block b (total and size: the sum and the number of the
\* pixel values of the block)
Darker(a, b) ==
    trace[a].total * trace[b].size < trace[b].total * trace[a].size

\* C6: within one call of generate_density_hatch_blocks a block with a
\* greater mean ink intensity gets at least as many segments as a block
\* with a smaller one, and every block gets 0..max_lines_per_block segments.
C6_DensityMonotonic ==
    prog = "generate_density_hatch_blocks" =>
        \A a \in 1..Len(trace) :
            /\ Len(trace[a].segs) \in 0..cfg.max_lines_per_block
            /\ \A b \in 1..Len(trace) :
                  Darker(a, b) => Len(trace[a].segs) >= Len(trace[b].segs)

\* C6 witness: a finished call in which a darker block got more segments
\* than a lighter one that got some
C6_Witness ==
    /\ prog = "generate_density_hatch_blocks"
    /\ pc = "done"
    /\ \E a \in 1..Len(trace), b \in 1..Len(trace) :
          /\ Darker(a, b)
          /\ Len(trace[a].segs) > Len(trace[b].segs)
          /\ Len(trace[b].segs) > 0

---------------------------------------------------------------------------
(* Properties of the G-code writers *)

IsOp(j, o) == j \in 1..Len(out) /\ out[j].op = o

IsMove(j) == out[j].op \in {"G0", "G1"}

\* the segments of `lines` for which a LinearMove has been written
Emitted == {i \in 1..Len(lines) : \E j \in 1..Len(out) :
                out[j].op = "G1" /\ out[j].seg = i}

\* the last segment before i that was written, 0 if there is none
PrevEmitted(i) ==
    LET before == {k \in Emitted : k < i}
    IN  IF before = {} THEN 0
        ELSE CHOOSE k \in before : \A m \in before : m <= k

HasRapid(i) == \E j \in 1..Len(out) : out[j].op = "G0" /\ out[j].seg = i

\* mm-space endpoints of segment i as ImageToGCode2.generate_gcode maps them
Start2(i) ==
    pixel_to_mm2(lines[i][1][1], lines[i][1][2], img_w_px, img_h_px,
                 printed_w_mm, printed_h_mm)
End2(i) ==
    pixel_to_mm2(lines[i][2][1], lines[i][2][2], img_w_px, img_h_px,
                 printed_w_mm, printed_h_mm)

SamePoint(p, q) == FEq(p[1], q[1]) /\ FEq(p[2], q[2])

\* the Euclidean distance of two finite points is below SKIP_TINY_MOVE_MM
Closer(p, q) ==
    /\ \A c \in {p[1], p[2], q[1], q[2]} : IsFinite(c)
    /\ (q[1].v - p[1].v) * (q[1].v - p[1].v)
         + (q[2].v - p[2].v) * (q[2].v - p[2].v)
       < SKIP_TINY_MOVE_MM * SKIP_TINY_MOVE_MM

\* C1: in the stream of each of the three writers every LinearMove (G1) is
\* immediately preceded by exactly one PenDown and immediately followed by
\* exactly one PenUp, and no PenDown or PenUp occurs anywhere else.
C1_BalancedActuation ==
    \A j \in 1..Len(out) :
        /\ out[j].op = "G1" =>
              /\ IsOp(j - 1, "PenDown") /\ ~IsOp(j - 2, "PenDown")
              /\ IsOp(j + 1, "PenUp") /\ ~IsOp(j + 2, "PenUp")
        /\ out[j].op = "PenDown" => IsOp(j + 1, "G1")
        /\ out[j].op = "PenUp" => IsOp(j - 1, "G1")

\* C1 witness: ImageToGCode2.generate_gcode finished a stream with two
\* linear moves
C1_Witness ==
    /\ pc = "done"
    /\ prog = "ImageToGCode2.generate_gcode"
    /\ Cardinality(Emitted) >= 2

\* C2: ImageToGCode2.generate_gcode never writes a LinearMove for a segment
\* whose mapped mm-space endpoints are closer than SKIP_TINY_MOVE_MM.
C2_NoTinyLinearMove ==
    prog = "ImageToGCode2.generate_gcode" =>
        \A i \in Emitted : ~Closer(Start2(i), End2(i))

\* C2 witness: a finished run that dropped a micro-move and wrote another
\* segment
C2_Witness ==
    /\ pc = "done"
    /\ prog = "ImageToGCode2.generate_gcode"
    /\ \E i \in 1..Len(lines) :
          /\ i \notin Emitted
          /\ Closer(Start2(i), End2(i))
          /\ ~SamePoint(Start2(i), End2(i))
    /\ Emitted # {}

\* C3 as stated: a RapidMove precedes the PenDown of a written segment
\* exactly when the segment's start differs from the pen position, the end
\* of the previously written segment (always for the first one).
C3_RapidIffStartDiffers ==
    prog = "ImageToGCode2.generate_gcode" =>
        \A i \in Emitted :
            HasRapid(i) <=>
                \/ PrevEmitted(i) = 0
                \/ ~SamePoint(End2(PrevEmitted(i)), Start2(i))

\* C3 amended: a RapidMove is written, directly before the PenDown of a
\* written segment, exactly when the segment's start rounded to 0.001 mm
\* differs from the rounded end of the previously written segment (always
\* for the first one).
C3_RapidIffRoundedStartDiffers ==
    prog = "ImageToGCode2.generate_gcode" =>
        /\ \A i \in Emitted :
              HasRapid(i) <=>
                  \/ PrevEmitted(i) = 0
                  \/ ~SamePoint(RoundPos(End2(PrevEmitted(i))),
                                RoundPos(Start2(i)))
        /\ \A j \in 1..Len(out) :
              out[j].op = "G0" =>
                  /\ IsOp(j + 1, "PenDown")
                  /\ out[j + 1].seg = out[j].seg

\* C3 witness: a finished run where a segment starts within the rounding
\* of, but not at, the end of the one before and gets no RapidMove, and
\* the first segment gets one
C3_Witness ==
    /\ pc = "done"
    /\ prog = "ImageToGCode2.generate_gcode"
    /\ \E i \in Emitted :
          /\ PrevEmitted(i) # 0
          /\ ~HasRapid(i)
          /\ HasRapid(PrevEmitted(i))
          /\ ~SamePoint(End2(PrevEmitted(i)), Start2(i))

\* the transform of the coordinate mapper: x scaled, y flipped and scaled
FlippedTransform(pt) ==
    <<FScale(pt[1], printed_w_mm \div img_w_px),
      FScale(FSubFrom(img_h_px, pt[2]), printed_h_mm \div img_h_px)>>

\* C7: every coordinate pair written by any of the writers is the segment
\* endpoint mapped by x_mm = x_px * (printed_w / img_w),
\* y_mm = (img_h - y_px) * (printed_h / img_h).
C7_FlipAppliedEverywhere ==
    \A j \in 1..Len(out) :
        IsMove(j) =>
            LET s == lines[out[j].seg]
                pt == IF out[j].op = "G0" THEN s[1] ELSE s[2]
                m == FlippedTransform(pt)
            IN  /\ out[j].x = Fmt2(m[1])
                /\ out[j].y = Fmt2(m[2])

NonComment(c) == c.op # "Comment"

HasNonFinite(s) ==
    \E c \in {s[1][1], s[1][2], s[2][1], s[2][2]} : ~IsFinite(c)

\* C9: a segment with a non-finite coordinate is rejected (the writer does
\* not run to completion on it), and no RapidMove or LinearMove carries a
\* non-finite coordinate.
C9_NonFiniteRejected ==
    prog = "ImageToGCode2.generate_gcode" =>
        /\ \A j \in 1..Len(out) :
              IsMove(j) => IsFinite(out[j].x) /\ IsFinite(out[j].y)
        /\ pc = "done" => \A i \in 1..Len(lines) : ~HasNonFinite(lines[i])

\* the lines of the stream written for segment i, in order
LinesOf(i) == SelectSeq(out, LAMBDA c : c.op \notin {"Comment", "G21", "G90"}
                                          /\ c.seg = i)

\* C11: ImageToGCode2.generate_gcode drops a segment only when its mm-space
\* length is below SKIP_TINY_MOVE_MM: every segment the loop has passed
\* whose length is at least the threshold has its PenDown, LinearMove(e,
\* feed), PenUp in the stream (after a RapidMove at most), a dropped segment
\* has no line, the lines follow the order of the list, and the tracked
\* position is the (rounded) end of the last segment written.
C11_DropsOnlyShortSegments ==
    (prog = "ImageToGCode2.generate_gcode" /\ pc # "start") =>
        /\ \A i \in 1..(cursor - 1) :
              /\ ~Closer(Start2(i), End2(i)) => i \in Emitted
              /\ i \in Emitted =>
                    LET n == Len(LinesOf(i))
                    IN  /\ n \in 3..4
                        /\ SubSeq(LinesOf(i), n - 2, n) =
                              <<PenDown(i),
                                LinearMove(End2(i), FEED_RATE2, i),
                                PenUp(i)>>
              /\ i \notin Emitted => LinesOf(i) = <<>>
        /\ \A j \in 4..Len(out), m \in 4..Len(out) :
              j < m => out[j].seg <= out[m].seg
        /\ last_pos = IF Emitted = {} THEN <<>>
                      ELSE RoundPos(End2(PrevEmitted(cursor)))

\* a pixel-space point of the block hatch (1/OffDen pixel) lies in
\* [0, width] x [0, height]; pixel_to_mm maps exactly these points into
\* [0, printed_w] x [0, printed_h]
InsideField(pt) ==
    /\ 0 <= pt[1] /\ pt[1] <= OffDen * width
    /\ 0 <= pt[2] /\ pt[2] <= OffDen * height

\* C12: every endpoint of a segment returned by
\* generate_density_hatch_blocks, in either orientation, lies inside the
\* field, so that every coordinate written for it lies inside the printed
\* area.
C12_EndpointsInsideField ==
    prog = "generate_density_hatch_blocks" =>
        \A n \in 1..Len(lines) :
            InsideField(lines[n][1]) /\ InsideField(lines[n][2])

===========================================================================
